---- MODULE Spec2Model ----
(***************************************************************************)
(* Job orchestration of the Fern-Wifi-Cracker tool integrations            *)
(* (core/crunch_integration.py, core/cowpatty_integration.py,              *)
(* core/wifite_integration.py, core/mdk_integration.py).                   *)
(*                                                                         *)
(* One controller instance of one tool family is modelled per behaviour:   *)
(* Init picks the family and the outcome of its availability probes.       *)
(* A Python dict is a function whose DOMAIN is the set of keys present, so *)
(* d.get(k, default) and "k in d" are modelled as the code evaluates them. *)
(* Time is time.time() in whole seconds.                                   *)
(***************************************************************************)
EXTENDS Integers, Sequences, FiniteSets, TLC

VARIABLES
    family,           \* which controller class this instance is
    probes,           \* what running each tool's availability check does on this
                      \* machine (the outcome of its subprocess.run)
    available,        \* <tool>_available flags set in the integration's __init__
    tool_output,      \* what the family's tool prints in this behaviour: the lines it
                      \* can print and how many the child processes print in all
    now,              \* int(time.time())
    procs,            \* every child process spawned so far (the OS side of each Popen)
    current_process,  \* self.current_process of the integration object (0 = None)
    active,           \* self.active_generations / self.active_attacks
    monitors,         \* threads started by monitor_*_progress: the id bound in the
                      \* callback, the loop position, the handle being read (own,
                      \* final and events are history: the process started with the
                      \* thread, the type of the event delivered after the loop, and
                      \* the events handed to the callback in the loop, each with
                      \* the process and the number of the line it was parsed from)
    workers,          \* run_attacks threads of the mdk controller
    caller,           \* the thread calling the controller's public methods
    starts,           \* history: one record per start call: the id it built, what it
                      \* returned, the process it launched, and whether a
                      \* subprocess.Popen made on its behalf raised (spawn)
    ticks,            \* how many times the clock reading has changed
    terminal_at,      \* history: when the status stored under an id last became terminal
    iface_mac,        \* the MAC address each network interface has (the OS side)
    original_macs     \* self.original_macs of the macchanger integration

vars == <<family, probes, available, tool_output, now, procs, current_process, active, monitors,
          workers, caller, starts, ticks, terminal_at, iface_mac, original_macs>>

----------------------------------------------------------------------------
(* Bounds of the model. *)

MaxStarts == 2       \* start calls per behaviour
MaxLines == 1        \* lines the child processes write to the monitored streams, in all
MaxJobLines == 2     \* the same, in the behaviours of SpecJob
MaxParseLines == 3   \* lines of the output a parser is run over in SpecParse
MaxTicks == 1        \* changes of the clock reading per behaviour
MaxWorkers == 1      \* run_attacks threads (mdk start calls) per behaviour
StartTime == 1000    \* time.time() when the controller is constructed

Families == {"crunch", "cowpatty", "wifite", "mdk"}
Targets == {"netA"}       \* ssid / bssid arguments of start

----------------------------------------------------------------------------
(* Time constants of the code. *)

CrunchRetention == 300      \* cleanup_generations: "> 300"
CowpattyRetention == 600    \* cleanup_attacks: "> 600"
WifiteRetention == 300      \* cleanup_completed_attacks: "> 300"
DefaultDuration == 60       \* start_comprehensive_attack(..., duration: int = 60)

----------------------------------------------------------------------------
(* Python dict helpers. *)

EmptyDict == [k \in {} |-> k]
Get(d, k, default) == IF k \in DOMAIN d THEN d[k] ELSE default
Put(d, k, v) == (k :> v) @@ d
Del(d, ks) == [k \in (DOMAIN d) \ ks |-> d[k]]

None == 0    \* a process handle that is None, a missing integer value

----------------------------------------------------------------------------
(* Availability flags, as each integration's __init__ names them. *)

Tools(f) ==
    CASE f = "crunch"   -> {"crunch"}
      [] f = "macchanger" -> {"macchanger"}
      [] f = "cowpatty" -> {"cowpatty", "genpmk"}
      [] f = "wifite"   -> {"wifite", "wifite2"}
      [] f = "mdk"      -> {"mdk3", "mdk4"}

crunch_available == available["crunch"]
cowpatty_available == available["cowpatty"]
genpmk_available == available["genpmk"]
wifite_available == available["wifite"]
wifite2_available == available["wifite2"]
mdk3_available == available["mdk3"]
mdk4_available == available["mdk4"]
macchanger_available == available["macchanger"]

\* The tools in the order __init__ checks them.
ToolOrder(f) ==
    CASE f = "crunch"   -> <<"crunch">>
      [] f = "macchanger" -> <<"macchanger">>
      [] f = "cowpatty" -> <<"cowpatty", "genpmk">>
      [] f = "wifite"   -> <<"wifite", "wifite2">>
      [] f = "mdk"      -> <<"mdk3", "mdk4">>

\* What subprocess.run([tool, ...], capture_output=True, timeout=5) can do: return
\* with exit code 0 or another, raise TimeoutExpired, raise FileNotFoundError,
\* or raise another OSError (PermissionError for a file that is not executable).
ProbeOutcomes == {"exit 0", "exit 1", "timeout", "missing", "not executable"}

\* The outcomes of a machine on which every check returns.
InstalledOrNot == {"exit 0", "missing"}

\* _check_crunch, _check_cowpatty, _check_genpmk, _check_wifite, _check_wifite2,
\* _check_mdk3, _check_mdk4: "return result.returncode == 0" ("return True" for
\* cowpatty and genpmk), "except (TimeoutExpired, FileNotFoundError): return
\* False"; any other exception leaves the method.
check_tool(tool, outcome) ==
    [raises |-> outcome \notin {"exit 0", "exit 1", "timeout", "missing"},
     value  |-> IF tool \in {"cowpatty", "genpmk"}
                THEN outcome \in {"exit 0", "exit 1"}
                ELSE outcome = "exit 0"]

\* The flags __init__ has set when all its checks returned.
Flags(f, outcomes) == [tool \in Tools(f) |-> check_tool(tool, outcomes[tool]).value]

\* The condition each launch method tests before building its command.
ToolAvailable ==
    CASE family = "crunch"   -> crunch_available
      [] family = "cowpatty" -> cowpatty_available
      [] family = "wifite"   -> wifite_available \/ wifite2_available
      [] family = "mdk"      -> mdk3_available \/ mdk4_available

----------------------------------------------------------------------------
(* Output lines and the parsers.                                            *)
(* A line is the set of <<matcher, captured number>> pairs of the regular   *)
(* expressions of the family that match it; {} is a line no pattern matches.*)

NoEvent == [none |-> TRUE]     \* _parse_progress returning None
IsNone(e) == "none" \in DOMAIN e

Hit(line, m) == \E h \in line : h[1] = m
Val(line, m) == (CHOOSE h \in line : h[1] = m)[2]

CrunchLines == { {<<"percent", 42>>}, {<<"words", 7>>} }

CowpattyLines ==
    { {<<"percent", 42>>}, {<<"key_found", 1>>, <<"key_text", 1>>, <<"key_token", 5>>} }

WifiteLines == { {<<"progress", 42>>}, {<<"wpa_key", 5>>} }

Lines(f) ==
    CASE f = "crunch"   -> CrunchLines
      [] f = "cowpatty" -> CowpattyLines
      [] f = "wifite"   -> WifiteLines
      [] f = "mdk"      -> { {} }

\* More of what each tool can print: also lines that several patterns of the
\* family match, and a line that none matches.
CrunchOutput == CrunchLines \cup { {<<"percent", 42>>, <<"words", 7>>}, {} }

CowpattyOutput ==
    CowpattyLines \cup { {<<"tested", 9>>}, {<<"percent", 42>>, <<"tested", 9>>},
                         {<<"key_found", 1>>, <<"key_text", 1>>, <<"percent", 42>>}, {} }

WifiteOutput ==
    WifiteLines \cup { {<<"target_found", 3>>}, {<<"wpa_key", 5>>, <<"progress", 42>>},
                       {<<"progress", 42>>, <<"attempts", 2>>}, {} }

MdkOutput ==
    { {<<"packets_sent", 10>>}, {<<"packets_sent", 10>>, <<"speed", 4>>},
      {<<"beacons_sent", 6>>, <<"speed", 4>>}, {<<"aps_found", 2>>}, {} }

Output(f) ==
    CASE f = "crunch"   -> CrunchOutput
      [] f = "cowpatty" -> CowpattyOutput
      [] f = "wifite"   -> WifiteOutput
      [] f = "mdk"      -> MdkOutput

\* CrunchIntegration._parse_progress
crunch_parse_progress(line) ==
    IF Hit(line, "percent")
    THEN [type |-> "progress", percentage |-> Val(line, "percent")]
    ELSE IF Hit(line, "words")
    THEN [type |-> "words_generated", count |-> Val(line, "words")]
    ELSE NoEvent

\* A cowpatty parser that looks for the percentage before the key.
cowpatty_parse_percent_first(line) ==
    IF Hit(line, "percent")
    THEN [type |-> "progress", percentage |-> Val(line, "percent")]
    ELSE IF Hit(line, "key_found")
    THEN [type |-> "key_found", key_index |-> Val(line, "key_found"), status |-> "success"]
    ELSE IF Hit(line, "tested")
    THEN [type |-> "passphrases_tested", count |-> Val(line, "tested")]
    ELSE NoEvent

\* CowpattyIntegration._parse_progress
cowpatty_parse_progress(line) ==
    IF Hit(line, "key_found")
    THEN [type |-> "key_found", key_index |-> Val(line, "key_found"), status |-> "success"]
    ELSE IF Hit(line, "percent")
    THEN [type |-> "progress", percentage |-> Val(line, "percent")]
    ELSE IF Hit(line, "tested")
    THEN [type |-> "passphrases_tested", count |-> Val(line, "tested")]
    ELSE NoEvent

\* WifiteIntegration._parse_progress: the patterns dict is walked in insertion order.
WifitePatterns ==
    <<"target_found", "attacking", "wps_pin", "wpa_key", "wep_key", "progress", "attempts">>

WifiteEvent(key, line) ==
    CASE key = "target_found" -> [type |-> "targets_found", count |-> Val(line, key)]
      [] key = "attacking"    -> [type |-> "attacking", channel |-> Val(line, key)]
      [] key \in {"wps_pin", "wpa_key", "wep_key"} ->
             [type |-> "key_found", key_type |-> key, key |-> Val(line, key)]
      [] key = "progress"     -> [type |-> "progress", percentage |-> Val(line, key)]
      [] key = "attempts"     -> [type |-> "attempts", remaining |-> Val(line, key)]

wifite_parse_progress(line) ==
    LET matching == {i \in DOMAIN WifitePatterns : Hit(line, WifitePatterns[i])}
    IN  IF matching = {} THEN NoEvent
        ELSE LET first == CHOOSE i \in matching : \A j \in matching : i <= j
             IN  WifiteEvent(WifitePatterns[first], line)

\* MDKIntegration._parse_progress: the first pattern of the dict that matches
\* gives the event's type; the event carries time.time().
MdkPatterns ==
    <<"packets_sent", "aps_found", "clients_found", "beacons_sent", "deauths_sent", "speed">>

mdk_parse_progress(line, t) ==
    LET matching == {i \in DOMAIN MdkPatterns : Hit(line, MdkPatterns[i])}
    IN  IF matching = {} THEN NoEvent
        ELSE LET first == CHOOSE i \in matching : \A j \in matching : i <= j
             IN  [type |-> MdkPatterns[first], value |-> Val(line, MdkPatterns[first]),
                  timestamp |-> t]

\* self._parse_progress(line.strip()) of the family's integration, at time t.
parse_progress(f, line, t) ==
    CASE f = "crunch"   -> crunch_parse_progress(line)
      [] f = "cowpatty" -> cowpatty_parse_progress(line)
      [] f = "wifite"   -> wifite_parse_progress(line)
      [] f = "mdk"      -> mdk_parse_progress(line, t)

----------------------------------------------------------------------------
(* Registry entries and job ids. *)

TerminalStates == {"completed", "failed", "stopped", "timed_out"}
Status(info) == Get(info, "status", "None")          \* info.get('status')
IsTerminal(info) == Status(info) \in TerminalStates

\* f"crunch_{int(time.time())}", f"cowpatty_{ssid}_{int(time.time())}",
\* f"{bssid}_{int(time.time())}", f"comprehensive_{int(time.time())}":
\* the part that varies with the arguments, and the whole second.
JobId(name, t) == <<name, t>>

UnknownId == <<"unknown", 0>>      \* an id no start ever returned

\* History of terminal transitions: the time at which the status under each id
\* went from non-terminal (or absent) to terminal.
NoteTerminal(old, new, t) ==
    [id \in {i \in DOMAIN new : IsTerminal(new[i])} |->
        IF id \in DOMAIN old /\ IsTerminal(old[id]) /\ id \in DOMAIN terminal_at
        THEN terminal_at[id] ELSE t]

----------------------------------------------------------------------------
(* Child processes: subprocess.Popen and the operating system's side of it. *)

\* What a child process writes to the monitored stream before it exits or is
\* read (out): chosen when it is spawned, and held in the pipe until readline()
\* or communicate() takes it. argv is the set of option flags on its command
\* line, job the start call it was spawned for.
Written == LET Sum[n \in 0..Len(procs)] ==
                   IF n = 0 THEN 0 ELSE Sum[n - 1] + Len(procs[n].out)
           IN  Sum[Len(procs)]
Scripts == UNION {[1..n -> tool_output.lines] : n \in 0..(tool_output.max - Written)}

NewProc(cmd, argv, job, script) ==
    [cmd |-> cmd, argv |-> argv, job |-> job, state |-> "running", returncode |-> None,
     out |-> script, pipe |-> script, sigterm |-> FALSE]

Running(p) == procs[p].state = "running"      \* Popen.poll() is None

\* Popen.terminate(): SIGTERM, unless the child has already exited.
Terminate(ps, p) ==
    IF ps[p].state = "running" THEN [ps EXCEPT ![p].sigterm = TRUE] ELSE ps

\* Popen.kill(): SIGKILL cannot be ignored; the child is gone.
Kill(ps, p) ==
    IF ps[p].state = "running"
    THEN [ps EXCEPT ![p].state = "exited", ![p].returncode = -9]
    ELSE ps

\* Exit codes of a child that ends on its own. Nothing reads the exit code of
\* an mdk process, so one value stands for all.
ExitCodes(cmd) == IF cmd \in {"mdk3", "mdk4"} THEN {0} ELSE {0, 1}

\* The child exits: on its own, or on a SIGTERM it received (a child that
\* ignores SIGTERM simply keeps running).
proc_exit(p) ==
    /\ Running(p)
    /\ \E code \in (IF procs[p].sigterm THEN {-15} ELSE ExitCodes(procs[p].cmd)) :
         procs' = [procs EXCEPT ![p].state = "exited", ![p].returncode = code]
    /\ UNCHANGED <<family, probes, available, iface_mac, original_macs, tool_output, ticks, now, current_process, active,
                   monitors, workers, caller, starts, terminal_at>>

----------------------------------------------------------------------------
(* Progress handlers of the three monitored controllers (the callbacks).    *)

\* A crunch handler that looks for the completion in the event's type, as the
\* cowpatty handler does.
crunch_handle_by_type(reg, id, info, t) ==
    IF id \in DOMAIN reg
    THEN LET gen_info == Put(reg[id], "last_update", t)
         IN  Put(reg, id,
                 IF Get(info, "type", "None") = "completed"
                 THEN Put(gen_info, "status", "completed")
                 ELSE IF Get(info, "type", "None") = "progress"
                 THEN Put(gen_info, "progress", Get(info, "percentage", 0))
                 ELSE gen_info)
    ELSE reg

\* AdvancedCrunchController._handle_progress
crunch_handle_progress(reg, id, info, t) ==
    IF id \in DOMAIN reg
    THEN LET gen_info == Put(reg[id], "last_update", t)
         IN  Put(reg, id,
                 IF Get(info, "status", "None") = "completed"
                 THEN Put(gen_info, "status", "completed")
                 ELSE IF Get(info, "type", "None") = "progress"
                 THEN Put(gen_info, "progress", Get(info, "percentage", 0))
                 ELSE gen_info)
    ELSE reg

\* AdvancedCowpattyController._handle_progress
cowpatty_handle_progress(reg, id, info, t) ==
    IF id \in DOMAIN reg
    THEN LET attack_info == Put(reg[id], "last_update", t)
         IN  Put(reg, id,
                 IF Get(info, "type", "None") \in {"key_found", "completed"}
                 THEN Put(Put(attack_info, "status", "completed"), "result", info)
                 ELSE IF Get(info, "type", "None") = "progress"
                 THEN Put(attack_info, "progress", Get(info, "percentage", 0))
                 ELSE attack_info)
    ELSE reg

\* WifiteController._handle_progress_update
wifite_handle_progress_update(reg, id, info, t) ==
    IF id \in DOMAIN reg
    THEN LET attack_info == Put(reg[id], "last_update", t)
         IN  Put(reg, id,
                 IF Get(info, "type", "None") = "key_found"
                 THEN Put(Put(attack_info, "result", info), "status", "completed")
                 ELSE IF Get(info, "type", "None") = "progress"
                 THEN Put(attack_info, "progress", Get(info, "percentage", 0))
                 ELSE attack_info)
    ELSE reg

\* The lambda each start passes to monitor_*_progress.
callback(reg, id, info, t) ==
    CASE family = "crunch"   -> crunch_handle_progress(reg, id, info, t)
      [] family = "cowpatty" -> cowpatty_handle_progress(reg, id, info, t)
      [] family = "wifite"   -> wifite_handle_progress_update(reg, id, info, t)
      [] OTHER               -> reg

----------------------------------------------------------------------------
(* Initial state: a freshly constructed controller.                         *)

\* The calling thread: where it is, and the arguments and locals of the call
\* it is in (id, the process handle it acts on, the status it found).
Idle == [pc |-> "idle", id |-> UnknownId, h |-> None, was |-> "None"]

\* The network interfaces of the machine and the hardware address of each: an
\* address a vendor assigned (neither the multicast nor the locally
\* administered bit of its first octet is set). A MAC address is its six octets.
Interfaces == {"wlan0"}
HardwareMac == <<164, 196, 148, 1, 2, 3>>

\* The machine before any spoofing, and a macchanger integration that has
\* backed up nothing.
Unspoofed ==
    /\ iface_mac = [interface \in Interfaces |-> HardwareMac]
    /\ original_macs = EmptyDict

\* The fields a controller's __init__ sets, and the threads and history of a
\* program that has called nothing yet.
Constructed ==
    /\ now = StartTime
    /\ procs = <<>>
    /\ current_process = None
    /\ active = EmptyDict
    /\ monitors = <<>>
    /\ workers = <<>>
    /\ caller = Idle
    /\ starts = <<>>
    /\ ticks = 0
    /\ terminal_at = EmptyDict
    /\ Unspoofed

Init ==
    /\ family \in Families
    /\ probes \in [Tools(family) -> InstalledOrNot]
    /\ available = Flags(family, probes)
    /\ tool_output = [lines |-> Lines(family), max |-> MaxLines]
    /\ Constructed

\* time.time() moves on: to just before or just after the family's time
\* constant has elapsed since construction.
Instants(f) ==
    CASE f = "crunch"   -> {CrunchRetention - 1, CrunchRetention + 1}
      [] f = "cowpatty" -> {CowpattyRetention - 1, CowpattyRetention + 1}
      [] f = "wifite"   -> {WifiteRetention - 1, WifiteRetention + 1}
      [] f = "mdk"      -> {DefaultDuration - 1, DefaultDuration + 1}
      [] f = "macchanger" -> {1}

Tick ==
    /\ ticks < MaxTicks
    /\ ticks' = ticks + 1
    /\ \E i \in Instants(family) : StartTime + i > now /\ now' = StartTime + i
    /\ UNCHANGED <<family, probes, available, iface_mac, original_macs, tool_output, procs, current_process, active,
                   monitors, workers, caller, starts, terminal_at>>

----------------------------------------------------------------------------
(* start: launch, register, start the monitor thread, return the id.        *)

\* A start that raises RuntimeError to its caller: before any Popen (spawn is
\* "none") or because Popen raised (spawn is "failed").
StartFails(id, kwargs, spawn) ==
    /\ starts' = Append(starts, [id |-> id, kwargs |-> kwargs, ret |-> "error",
                                 proc |-> None, spawn |-> spawn, genpmk |-> "not run"])
    /\ UNCHANGED <<procs, current_process, active, monitors, terminal_at>>

\* subprocess.Popen succeeded: self.current_process = process; the entry is
\* stored under id (replacing whatever was there), monitor_*_progress starts a
\* daemon thread whose callback is bound to id, and id is returned.
Launched(id, kwargs, cmd, argv, script, entry) ==
    LET h == Len(procs) + 1
        registry == Put(active, id, Put(entry, "process", h))
    IN  /\ procs' = Append(procs, NewProc(cmd, argv, Len(starts) + 1, script))
        /\ current_process' = h
        /\ active' = registry
        /\ monitors' = Append(monitors, [id |-> id, own |-> h, pc |-> "poll",
                                          h |-> None, final |-> "None",
                                          events |-> <<>>])
        /\ starts' = Append(starts, [id |-> id, kwargs |-> kwargs, ret |-> "ok",
                                     proc |-> h, spawn |-> "ok", genpmk |-> "not run"])
        /\ terminal_at' = NoteTerminal(active, registry, now)

\* A start that runs the crunch check again before it launches.
start_reprobing ==
    /\ family = "crunch"
    /\ caller.pc = "idle"
    /\ Len(starts) < MaxStarts
    /\ \E found \in BOOLEAN :
         /\ available' = [available EXCEPT !["crunch"] = found]
         /\ IF found
            THEN \E script \in Scripts :
                    Launched(JobId("crunch", now), {}, "crunch", {}, script,
                             [status |-> "running"])
            ELSE StartFails(JobId("crunch", now), {}, "none")
    /\ UNCHANGED <<family, probes, iface_mac, original_macs, tool_output, ticks, now, workers, caller>>

\* AdvancedCrunchController.start_smart_wordlist_generation
start_smart_wordlist_generation ==
    /\ family = "crunch"
    /\ caller.pc = "idle"
    /\ Len(starts) < MaxStarts
    /\ LET generation_id == JobId("crunch", now)
       IN  \/ /\ ~crunch_available          \* generate_wordlist raises
              /\ StartFails(generation_id, {}, "none")
           \/ /\ crunch_available           \* Popen raises OSError
              /\ StartFails(generation_id, {}, "failed")
           \/ /\ crunch_available
              /\ \E script \in Scripts :
                   Launched(generation_id, {}, "crunch", {}, script,
                            [status |-> "running"])
    /\ UNCHANGED <<family, probes, available, iface_mac, original_macs, tool_output, ticks, now, workers, caller>>

\* The option keys WifiteIntegration.start_automated_attack looks at; an option
\* dict is modelled by the set of its keys that hold a true value.
WifiteOptions ==
    {"aggressive", "wps_only", "wep_only", "wpa_only", "no_wps", "pixie_dust", "bully",
     "dictionary", "bssid", "channel", "essid"}

\* WifiteIntegration.configure_attack: the preset of the attack type, updated
\* with every keyword argument.
configure_attack(attack_type, kwargs) ==
    (CASE attack_type = "WPS (Pixie Dust)"      -> {"wps_only", "pixie_dust", "aggressive"}
       [] attack_type = "WPS (PIN Brute Force)" -> {"wps_only", "bully", "aggressive"}
       [] attack_type = "WPA Dictionary Attack" -> {"wpa_only", "dictionary", "aggressive"}
       [] attack_type = "WEP Attacks"           -> {"wep_only", "aggressive"}
       [] attack_type = "WPA PMKID Attack"      -> {"wpa_only", "pmkid", "aggressive"}
       [] OTHER                                 -> {})
    \cup kwargs

\* WifiteController.start_targeted_attack: the entry is stored without a
\* 'status' key. start_automated_attack puts on the command line the options
\* it knows and does not look at the others.
start_targeted_attack(bssid, attack_type, kwargs) ==
    /\ family = "wifite"
    /\ caller.pc = "idle"
    /\ Len(starts) < MaxStarts
    /\ LET attack_id == JobId(bssid, now)
           config == configure_attack(attack_type, kwargs \cup {"bssid"})
       IN  \/ /\ ~(wifite_available \/ wifite2_available)
              /\ StartFails(attack_id, kwargs, "none")
           \/ /\ wifite_available \/ wifite2_available     \* Popen raises OSError
              /\ StartFails(attack_id, kwargs, "failed")
           \/ /\ wifite_available \/ wifite2_available
              /\ \E script \in Scripts :
                   Launched(attack_id, kwargs,
                            IF wifite2_available THEN "python3 wifite" ELSE "wifite",
                            config \cap WifiteOptions, script, [bssid |-> bssid])
    /\ UNCHANGED <<family, probes, available, iface_mac, original_macs, tool_output, ticks, now, workers, caller>>

\* The option flags of the command lines attack_with_pmk_file and
\* attack_with_wordlist build: PMK file or dictionary file, capture file, ssid.
CowpattyArgv(cmd) ==
    IF cmd = "cowpatty -d" THEN {"-d", "-r", "-s"} ELSE {"-f", "-r", "-s"}

\* CowpattyIntegration.attack_with_pmk_file / attack_with_wordlist, then the
\* rest of AdvancedCowpattyController.start_optimized_attack. st is the start
\* history with this call's record as its last.
CowpattyAttack(st, attack_id, cmd) ==
    LET k == Len(st)
        h == Len(procs) + 1
        registry == Put(active, attack_id,
                        [process |-> h, ssid |-> attack_id[1], status |-> "running"])
    IN  \/ /\ ~cowpatty_available           \* attack_with_* raises
           /\ starts' = [st EXCEPT ![k].ret = "error"]
           /\ UNCHANGED <<procs, current_process, active, monitors, terminal_at>>
        \/ /\ cowpatty_available            \* Popen raises OSError
           /\ starts' = [st EXCEPT ![k].ret = "error", ![k].spawn = "failed"]
           /\ UNCHANGED <<procs, current_process, active, monitors, terminal_at>>
        \/ /\ cowpatty_available
           /\ \E script \in Scripts :
                procs' = Append(procs, NewProc(cmd, CowpattyArgv(cmd), k, script))
           /\ current_process' = h
           /\ active' = registry
           /\ monitors' = Append(monitors, [id |-> attack_id, own |-> h, pc |-> "poll",
                                             h |-> None, final |-> "None",
                                             events |-> <<>>])
           /\ starts' = [st EXCEPT ![k].ret = "ok", ![k].proc = h, ![k].spawn = "ok"]
           /\ terminal_at' = NoteTerminal(active, registry, now)

\* AdvancedCowpattyController.start_optimized_attack, up to the point where it
\* either launches cowpatty in wordlist mode or blocks in precompute_pmk:
\* subprocess.run(['genpmk', ...], timeout=300) has spawned genpmk and waits.
start_optimized_attack(ssid, use_precomputation) ==
    /\ family = "cowpatty"
    /\ caller.pc = "idle"
    /\ Len(starts) < MaxStarts
    /\ LET attack_id == JobId(ssid, now)
           called == Append(starts, [id |-> attack_id,
                                     kwargs |-> IF use_precomputation
                                                THEN {"use_precomputation"} ELSE {},
                                     ret |-> "pending", proc |-> None, spawn |-> "none",
                                     genpmk |-> "not run"])
       IN  \/ /\ use_precomputation /\ genpmk_available
              /\ caller' = [Idle EXCEPT !.pc = "precompute", !.id = attack_id]
              /\ starts' = called
              /\ UNCHANGED <<procs, current_process, active, monitors, terminal_at>>
           \/ /\ ~(use_precomputation /\ genpmk_available)
              /\ CowpattyAttack(called, attack_id, "cowpatty -f")
              /\ UNCHANGED caller
    /\ UNCHANGED <<family, probes, available, iface_mac, original_macs, tool_output, ticks, now, workers>>

\* What subprocess.run(['genpmk', ...], timeout=300) can do: genpmk exits 0
\* having written its output file, exits non-zero, or is killed at the timeout.
GenpmkOutcomes == {"exit 0", "exit 1", "timeout"}

\* A precompute_pmk that does not look at genpmk's return code.
precompute_pmk_any_exit(outcome) ==
    IF ~genpmk_available THEN "None"
    ELSE IF outcome /= "timeout" THEN "pmk_file" ELSE "None"

\* CowpattyIntegration.precompute_pmk: the output file, or None.
precompute_pmk(outcome) ==
    IF ~genpmk_available THEN "None"
    ELSE IF outcome = "exit 0" THEN "pmk_file" ELSE "None"

\* precompute_pmk returns; then cowpatty is launched in PMK-file mode if it
\* returned a file, in wordlist mode if it returned None.
precompute_pmk_return(outcome) ==
    /\ caller.pc = "precompute"
    /\ CowpattyAttack([starts EXCEPT ![Len(starts)].genpmk = outcome], caller.id,
                      IF precompute_pmk(outcome) /= "None"
                      THEN "cowpatty -d" ELSE "cowpatty -f")
    /\ caller' = Idle
    /\ UNCHANGED <<family, probes, available, iface_mac, original_macs, tool_output, ticks, now, workers>>

----------------------------------------------------------------------------
(* The monitor thread of monitor_generation_progress / monitor_attack_progress.
   Every step reads self.current_process anew, as the closure does.          *)

SetMon(t, pc, h) == [monitors EXCEPT ![t].pc = pc, ![t].h = h]

\* while self.current_process and self.current_process.poll() is None:
\* the loop goes on to readline() on that process, or leaves the loop.
mon_poll(t) ==
    /\ monitors[t].pc = "poll"
    /\ monitors' = IF Running(current_process)
                   THEN SetMon(t, "reading", current_process)
                   ELSE SetMon(t, "final", None)
    /\ UNCHANGED <<family, probes, available, iface_mac, original_macs, tool_output, ticks, now, procs, current_process,
                   active, workers, caller, starts, terminal_at>>

\* A pipe that hands out the newest line first.
readline_newest(p) ==
    [line |-> p.pipe[Len(p.pipe)], n |-> Len(p.out),
     rest |-> SubSeq(p.pipe, 1, Len(p.pipe) - 1)]

\* stdout.readline() / stderr.readline() on a pipe that holds a line: the
\* oldest unread line, its number in the process's output, and what stays.
readline(p) ==
    [line |-> Head(p.pipe), n |-> Len(p.out) - Len(p.pipe) + 1, rest |-> Tail(p.pipe)]

\* readline() returns: the next line of the pipe, or '' at end of file. A
\* line that parses to an event is handed to the callback; then sleep(0.1).
mon_readline(t) ==
    LET h == monitors[t].h
        id == monitors[t].id
    IN  /\ monitors[t].pc = "reading"
        /\ \/ /\ procs[h].pipe /= <<>>
              /\ LET read == readline(procs[h])
                     progress == parse_progress(family, read.line, now)
                     registry == IF IsNone(progress) THEN active
                                 ELSE callback(active, id, progress, now)
                     delivered == [h |-> h, n |-> read.n, event |-> progress]
                 IN  /\ active' = registry
                     /\ terminal_at' = NoteTerminal(active, registry, now)
                     /\ monitors' = [SetMon(t, "poll", None) EXCEPT ![t].events =
                                        IF IsNone(progress) THEN @ ELSE Append(@, delivered)]
                     /\ procs' = [procs EXCEPT ![h].pipe = read.rest]
           \/ /\ procs[h].pipe = <<>>
              /\ ~Running(h)
              /\ monitors' = SetMon(t, "poll", None)
              /\ UNCHANGED <<procs, active, terminal_at>>
        /\ UNCHANGED <<family, probes, available, iface_mac, original_macs, tool_output, ticks, now, current_process,
                       workers, caller, starts>>

\* CowpattyIntegration._get_final_result on process p: communicate(timeout=5)
\* raises TimeoutExpired on a process that is still running; otherwise the
\* unread output is searched for the key.
get_final_result(p) ==
    IF Running(p)
    THEN [type |-> "timeout", status |-> "failed"]
    ELSE LET output == procs[p].pipe
             keys == {i \in DOMAIN output : Hit(output[i], "key_token")}
         IN  IF (\E i \in DOMAIN output : Hit(output[i], "key_text")) /\ keys /= {}
             THEN [type |-> "completed", status |-> "success",
                   key |-> Val(output[CHOOSE i \in keys : \A j \in keys : i <= j],
                               "key_token")]
             ELSE [type |-> "completed", status |-> "failed"]

\* After the loop. crunch, wifite: callback({'status': 'completed'}).
\* cowpatty: callback(self._get_final_result()), which drains the pipe.
mon_final(t) ==
    LET id == monitors[t].id
        result == IF family = "cowpatty" THEN get_final_result(current_process)
                  ELSE [status |-> "completed"]
        registry == callback(active, id, result, now)
    IN  /\ monitors[t].pc = "final"
        /\ active' = registry
        /\ terminal_at' = NoteTerminal(active, registry, now)
        /\ procs' = IF family = "cowpatty"
                    THEN [procs EXCEPT ![current_process].pipe = <<>>]
                    ELSE procs
        /\ monitors' = [monitors EXCEPT ![t].pc = "done",
                                        ![t].final = Get(result, "type", "completed")]
        /\ UNCHANGED <<family, probes, available, iface_mac, original_macs, tool_output, ticks, now, current_process,
                       workers, caller, starts>>

----------------------------------------------------------------------------
(* stop: AdvancedCrunchController.stop_generation and the stop_attack of the
   cowpatty, wifite and mdk controllers, each calling the integration's
   stop_generation / stop_attack, which acts on self.current_process.        *)

GraceSeconds == 5      \* wait(timeout=5) between terminate() and kill()

\* The call, up to self.current_process.terminate(): an id that is not
\* registered, or an integration without a current process, returns False at
\* once. self.current_process.wait(timeout=5) then reads the field again: only
\* the run_attacks thread of the mdk controller can assign it in between, so
\* for the other controllers the wait begins in the same step.
stop_attack(id) ==
    /\ caller.pc = "idle"
    /\ IF id \in DOMAIN active /\ current_process /= None
       THEN /\ procs' = Terminate(procs, current_process)
            /\ caller' = [Idle EXCEPT !.pc = IF family = "mdk" THEN "terminated"
                                             ELSE "wait",
                                      !.id = id, !.h = current_process,
                                      !.was = Status(active[id])]
       ELSE UNCHANGED <<procs, caller>>
    /\ UNCHANGED <<family, probes, available, iface_mac, original_macs, tool_output, ticks, now, current_process, active,
                   monitors, workers, starts, terminal_at>>

\* self.current_process.wait(timeout=5) begins, on the process the field
\* holds now.
stop_wait_begin ==
    /\ caller.pc = "terminated"
    /\ caller' = [caller EXCEPT !.pc = "wait", !.h = current_process]
    /\ UNCHANGED <<family, probes, available, iface_mac, original_macs, tool_output, ticks, now, procs, current_process,
                   active, monitors, workers, starts, terminal_at>>

\* success is True: the controller stores 'stopped' under the id and returns True.
StopReturnsTrue(ps) ==
    LET registry == Put(active, caller.id, Put(active[caller.id], "status", "stopped"))
    IN  /\ procs' = ps
        /\ active' = registry
        /\ terminal_at' = NoteTerminal(active, registry, now)
        /\ caller' = Idle
        /\ UNCHANGED <<family, probes, available, iface_mac, original_macs, tool_output, ticks, now, current_process,
                       monitors, workers, starts>>

\* wait() returned within the grace period: the process has exited.
stop_wait_return ==
    /\ caller.pc = "wait"
    /\ ~Running(caller.h)
    /\ StopReturnsTrue(procs)

\* wait() raised TimeoutExpired: self.current_process.kill(), on the process
\* the field holds now.
stop_wait_timeout ==
    /\ caller.pc = "wait"
    /\ Running(caller.h)
    /\ StopReturnsTrue(Kill(procs, current_process))

----------------------------------------------------------------------------
(* sweep: cleanup_generations / cleanup_attacks / cleanup_completed_attacks. *)

SweptStates(f) ==
    CASE f = "crunch"   -> {"completed", "stopped"}
      [] f = "cowpatty" -> {"completed", "stopped", "failed"}
      [] f = "wifite"   -> {"completed", "stopped"}
      [] OTHER          -> {}

Retention(f) ==
    CASE f = "crunch"   -> CrunchRetention
      [] f = "cowpatty" -> CowpattyRetention
      [] f = "wifite"   -> WifiteRetention
      [] OTHER          -> 0

\* to_remove, as the first loop collects it with current_time = time.time().
ToRemove(f, current_time) ==
    {id \in DOMAIN active :
        /\ Status(active[id]) \in SweptStates(f)
        /\ current_time - Get(active[id], "last_update", 0) > Retention(f)}

\* Both loops: every id collected is deleted.
Cleanup(f) ==
    LET registry == Del(active, ToRemove(f, now))
    IN  /\ family = f
        /\ caller.pc = "idle"
        /\ active' = registry
        /\ terminal_at' = NoteTerminal(active, registry, now)
        /\ UNCHANGED <<family, probes, available, iface_mac, original_macs, tool_output, ticks, now, procs,
                       current_process, monitors, workers, caller, starts>>

cleanup_generations == Cleanup("crunch")
cleanup_attacks == Cleanup("cowpatty")
cleanup_completed_attacks == Cleanup("wifite")

----------------------------------------------------------------------------
(* The mdk controller: start_comprehensive_attack and its run_attacks thread. *)

WorkerWaitSeconds == 2    \* process.wait(timeout=2) in run_attacks

AttackTypeLists == { <<"eapol_flood", "beacon_flood">> }     \* attack_types arguments
Mdk4Only == {"eapol_flood", "michael_shutdown", "wids_confusion"}
NeedsBssid == {"deauthentication", "auth_dos", "eapol_flood", "michael_shutdown"}

\* MDKIntegration.get_attack_types: the keys of the dict it returns.
get_attack_types ==
    LET attacks == {"deauthentication", "beacon_flood", "auth_dos", "eapol_flood",
                    "michael_shutdown", "wids_confusion"}
    IN  IF ~mdk4_available THEN attacks \ Mdk4Only ELSE attacks

\* The command the start_*_attack method of an attack type builds.
MdkCmd(attack_type) ==
    IF attack_type \in Mdk4Only THEN "mdk4"
    ELSE IF mdk4_available THEN "mdk4" ELSE "mdk3"

\* The availability test at the top of each start_*_attack method.
MdkCanStart(attack_type) ==
    IF attack_type \in Mdk4Only THEN mdk4_available
    ELSE mdk3_available \/ mdk4_available

\* "continue", or the end of an iteration that did not break: the for loop
\* takes the next attack type, or ends.
NextIteration(w) ==
    [workers EXCEPT ![w].i = @ + 1,
                    ![w].pc = IF workers[w].i + 1 > Len(workers[w].types)
                              THEN "final" ELSE "iter"]

\* AdvancedMDKController.start_comprehensive_attack, up to thread.start().
start_comprehensive_attack(target_bssid, attack_types) ==
    /\ family = "mdk"
    /\ caller.pc = "idle"
    /\ Len(starts) < MaxStarts
    /\ Len(workers) < MaxWorkers
    /\ LET attack_id == JobId("comprehensive", now)
       IN  /\ workers' = Append(workers,
                  [id |-> attack_id, k |-> Len(starts) + 1, types |-> attack_types,
                   bssid |-> target_bssid, available_attacks |-> get_attack_types,
                   start_time |-> now, i |-> 1, process |-> None,
                   pc |-> IF attack_types = <<>> THEN "final" ELSE "iter"])
           /\ starts' = Append(starts, [id |-> attack_id, kwargs |-> {},
                                        ret |-> "pending", proc |-> None,
                                        spawn |-> "none", genpmk |-> "not run"])
           /\ caller' = [Idle EXCEPT !.pc = "insert", !.id = attack_id]
    /\ UNCHANGED <<family, probes, available, iface_mac, original_macs, tool_output, ticks, now, procs, current_process,
                   active, monitors, terminal_at>>

\* ... the rest of it: the entry is stored under the id and the id returned.
start_comprehensive_insert ==
    LET registry == Put(active, caller.id,
                        [status |-> "running", thread |-> Len(workers)])
    IN  /\ caller.pc = "insert"
        /\ active' = registry
        /\ terminal_at' = NoteTerminal(active, registry, now)
        /\ starts' = [starts EXCEPT ![Len(starts)].ret = "ok"]
        /\ caller' = Idle
        /\ UNCHANGED <<family, probes, available, iface_mac, original_macs, tool_output, ticks, now, procs,
                       current_process, monitors, workers>>

\* One iteration of run_attacks, from the top of the loop body to time.sleep.
run_attacks_launch(w) ==
    LET self == workers[w]
        attack_type == self.types[self.i]
        h == Len(procs) + 1
        attack_duration == DefaultDuration \div Len(self.types)
        remaining == DefaultDuration - (now - self.start_time)
        sleep == IF attack_duration < remaining THEN attack_duration ELSE remaining
        \* after the try block's launch, with the local "process" being p
        ToSleep(p) == IF sleep < 0                      \* time.sleep raises ValueError
                      THEN [NextIteration(w) EXCEPT ![w].process = p]
                      ELSE [workers EXCEPT ![w].pc = "sleeping", ![w].process = p]
    IN  /\ self.pc = "iter"
        /\ \/ /\ attack_type \notin self.available_attacks      \* continue
              /\ workers' = NextIteration(w)
              /\ UNCHANGED <<procs, current_process, starts>>
           \/ /\ attack_type \in self.available_attacks
              /\ attack_type \in NeedsBssid => self.bssid /= "None"
              /\ ~MdkCanStart(attack_type)                      \* RuntimeError
              /\ workers' = NextIteration(w)
              /\ UNCHANGED <<procs, current_process, starts>>
           \/ /\ attack_type \in self.available_attacks
              /\ attack_type \in NeedsBssid => self.bssid /= "None"
              /\ MdkCanStart(attack_type)                       \* Popen raises
              /\ workers' = NextIteration(w)
              /\ starts' = [starts EXCEPT ![self.k].spawn = "failed"]
              /\ UNCHANGED <<procs, current_process>>
           \/ /\ attack_type \in self.available_attacks
              /\ attack_type \in NeedsBssid => self.bssid /= "None"
              /\ MdkCanStart(attack_type)
              /\ procs' = Append(procs, NewProc(MdkCmd(attack_type), {}, self.k, <<>>))
              /\ current_process' = h
              /\ workers' = ToSleep(h)
              /\ UNCHANGED starts
           \/ /\ attack_type \in self.available_attacks          \* no branch taken
              /\ attack_type \in NeedsBssid /\ self.bssid = "None"
              /\ workers' = ToSleep(self.process)
              /\ UNCHANGED <<procs, current_process, starts>>
        /\ UNCHANGED <<family, probes, available, iface_mac, original_macs, tool_output, ticks, now, active, monitors,
                       caller, terminal_at>>

\* time.sleep returned: "if process:" raises UnboundLocalError when no process
\* was ever assigned; otherwise process.terminate(), then process.wait(timeout=2).
run_attacks_terminate(w) ==
    /\ workers[w].pc = "sleeping"
    /\ IF workers[w].process = None
       THEN /\ workers' = NextIteration(w)
            /\ UNCHANGED procs
       ELSE /\ procs' = Terminate(procs, workers[w].process)
            /\ workers' = [workers EXCEPT ![w].pc = "wait"]
    /\ UNCHANGED <<family, probes, available, iface_mac, original_macs, tool_output, ticks, now, current_process, active,
                   monitors, caller, starts, terminal_at>>

\* wait() returned: break if the whole duration has elapsed, else next type.
run_attacks_wait_return(w) ==
    /\ workers[w].pc = "wait"
    /\ ~Running(workers[w].process)
    /\ workers' = IF now - workers[w].start_time >= DefaultDuration
                  THEN [workers EXCEPT ![w].pc = "final"]
                  ELSE NextIteration(w)
    /\ UNCHANGED <<family, probes, available, iface_mac, original_macs, tool_output, ticks, now, procs, current_process,
                   active, monitors, caller, starts, terminal_at>>

\* wait() raised TimeoutExpired: caught by "except Exception", continue.
run_attacks_wait_timeout(w) ==
    /\ workers[w].pc = "wait"
    /\ Running(workers[w].process)
    /\ workers' = NextIteration(w)
    /\ UNCHANGED <<family, probes, available, iface_mac, original_macs, tool_output, ticks, now, procs, current_process,
                   active, monitors, caller, starts, terminal_at>>

\* self.active_attacks[attack_id]['status'] = 'completed': KeyError ends the
\* thread when the id is not (yet) registered.
run_attacks_final(w) ==
    LET id == workers[w].id
        registry == IF id \in DOMAIN active
                    THEN Put(active, id, Put(active[id], "status", "completed"))
                    ELSE active
    IN  /\ workers[w].pc = "final"
        /\ active' = registry
        /\ terminal_at' = NoteTerminal(active, registry, now)
        /\ workers' = [workers EXCEPT ![w].pc = IF id \in DOMAIN active
                                                THEN "done" ELSE "dead"]
        /\ UNCHANGED <<family, probes, available, iface_mac, original_macs, tool_output, ticks, now, procs,
                       current_process, monitors, caller, starts>>

----------------------------------------------------------------------------
(* The complete system. *)

Next ==
    \/ Tick
    \/ start_smart_wordlist_generation
    \/ \E bssid \in Targets : start_targeted_attack(bssid, "WEP Attacks", {})
    \* use_precomputation left at its default, True
    \/ \E ssid \in Targets : start_optimized_attack(ssid, TRUE)
    \/ \E outcome \in {"exit 0", "exit 1"} : precompute_pmk_return(outcome)
    \/ \E bssid \in Targets \cup {"None"}, types \in AttackTypeLists :
         start_comprehensive_attack(bssid, types)
    \/ start_comprehensive_insert
    \/ \E w \in DOMAIN workers :
         \/ run_attacks_launch(w)
         \/ run_attacks_terminate(w)
         \/ run_attacks_wait_return(w)
         \/ run_attacks_wait_timeout(w)
         \/ run_attacks_final(w)
    \/ \E t \in DOMAIN monitors :
         \/ mon_poll(t)
         \/ mon_readline(t)
         \/ mon_final(t)
    \/ \E p \in DOMAIN procs : proc_exit(p)
    \/ \E id \in DOMAIN active \cup {UnknownId} : stop_attack(id)
    \/ stop_wait_begin
    \/ stop_wait_return
    \/ stop_wait_timeout
    \/ cleanup_generations
    \/ cleanup_attacks
    \/ cleanup_completed_attacks

Spec == Init /\ [][Next]_vars

----------------------------------------------------------------------------
(* Jobs left to run: a controller on which jobs are started with or without
   further keyword arguments, whose tools print more lines, and on which
   nothing is stopped or swept.                                              *)

WifiteAttacks == {"WEP Attacks"}          \* attack_type arguments
KwargSets == { {}, {"verbose"} }          \* **kwargs of start_targeted_attack

InitJob ==
    /\ family \in Families \ {"mdk"}
    /\ probes \in [Tools(family) -> InstalledOrNot]
    /\ available = Flags(family, probes)
    /\ tool_output = [lines |-> Lines(family), max |-> MaxJobLines]
    /\ Constructed

NextJob ==
    \/ start_smart_wordlist_generation
    \/ \E bssid \in Targets, attack_type \in WifiteAttacks, kwargs \in KwargSets :
         start_targeted_attack(bssid, attack_type, kwargs)
    \/ \E ssid \in Targets, use_precomputation \in BOOLEAN :
         start_optimized_attack(ssid, use_precomputation)
    \/ \E outcome \in GenpmkOutcomes : precompute_pmk_return(outcome)
    \/ \E t \in DOMAIN monitors :
         \/ mon_poll(t)
         \/ mon_readline(t)
         \/ mon_final(t)
    \/ \E p \in DOMAIN procs : proc_exit(p)

SpecJob == InitJob /\ [][NextJob]_vars

\* The same with the scheduling of the monitor threads: a monitor thread is a
\* daemon thread that sleeps 0.1 s per iteration and is otherwise runnable, so
\* each of its steps that stays enabled is eventually taken. Nothing obliges a
\* child process to exit or the caller to start another job.
InitLive ==
    /\ family \in Families \ {"mdk"}
    /\ probes \in [Tools(family) -> InstalledOrNot]
    /\ available = Flags(family, probes)
    /\ tool_output = [lines |-> Lines(family), max |-> MaxLines]
    /\ Constructed

MonitorRuns(t) ==
    /\ t \in DOMAIN monitors
    /\ mon_poll(t) \/ mon_readline(t) \/ mon_final(t)

SpecLive ==
    /\ InitLive
    /\ [][NextJob]_vars
    /\ \A t \in 1..MaxStarts : WF_vars(MonitorRuns(t))

----------------------------------------------------------------------------
(* A parser run over a fixed output: the monitor thread of an integration
   (monitor_generation_progress / monitor_attack_progress of any of the four
   integrations) on a process that prints a given sequence of lines, with a
   callback that belongs to no registered job.                               *)

InitParse ==
    /\ family \in Families
    /\ probes = [tool \in Tools(family) |-> "exit 0"]
    /\ available = Flags(family, probes)
    /\ tool_output = [lines |-> Output(family), max |-> MaxParseLines]
    /\ now = StartTime
    /\ \E script \in UNION {[1..n -> Output(family)] : n \in 0..MaxParseLines} :
         procs = <<NewProc(family, {}, 1, script)>>
    /\ current_process = 1
    /\ active = EmptyDict
    /\ monitors = <<[id |-> UnknownId, own |-> 1, pc |-> "poll", h |-> None,
                     final |-> "None", events |-> <<>>]>>
    /\ workers = <<>>
    /\ caller = Idle
    /\ starts = <<[id |-> UnknownId, kwargs |-> {}, ret |-> "ok", proc |-> 1,
                   spawn |-> "ok", genpmk |-> "not run"]>>
    /\ ticks = 0
    /\ terminal_at = EmptyDict
    /\ Unspoofed

NextParse ==
    \/ \E t \in DOMAIN monitors :
         \/ mon_poll(t)
         \/ mon_readline(t)
         \/ mon_final(t)
    \/ \E p \in DOMAIN procs : proc_exit(p)

SpecParse == InitParse /\ [][NextParse]_vars

----------------------------------------------------------------------------
(* Construction: the __init__ of an integration on a machine where running
   the tools can have any outcome.                                           *)

\* The first tool of the family, in the order checked, whose check raises
\* (0 if none does).
FirstRaising(f, outcomes) ==
    LET raising == {i \in DOMAIN ToolOrder(f) :
                       check_tool(ToolOrder(f)[i], outcomes[ToolOrder(f)[i]]).raises}
    IN  IF raising = {} THEN 0 ELSE CHOOSE i \in raising : \A j \in raising : i <= j

\* A thread that is about to construct the controller: no flag is set yet.
InitProbe ==
    /\ family \in Families
    /\ probes \in [Tools(family) -> ProbeOutcomes]
    /\ available = EmptyDict
    /\ tool_output = [lines |-> Lines(family), max |-> MaxLines]
    /\ now = StartTime
    /\ procs = <<>>
    /\ current_process = None
    /\ active = EmptyDict
    /\ monitors = <<>>
    /\ workers = <<>>
    /\ caller = [Idle EXCEPT !.pc = "new"]
    /\ starts = <<>>
    /\ ticks = 0
    /\ terminal_at = EmptyDict
    /\ Unspoofed

\* __init__ of the family's integration: each flag is assigned the result of
\* its check, in order; a check that raises ends __init__ with the exception,
\* which reaches the constructing thread.
init_integration ==
    LET r == FirstRaising(family, probes)
    IN  /\ caller.pc = "new"
        /\ available' = [tool \in {ToolOrder(family)[i] :
                                      i \in {j \in DOMAIN ToolOrder(family) : r = 0 \/ j < r}}
                            |-> check_tool(tool, probes[tool]).value]
        /\ caller' = IF r = 0 THEN Idle ELSE [Idle EXCEPT !.pc = "raised"]
        /\ UNCHANGED <<family, probes, iface_mac, original_macs, tool_output, ticks, now, procs, current_process,
                       active, monitors, workers, starts, terminal_at>>

SpecProbe == InitProbe /\ [][init_integration]_vars

----------------------------------------------------------------------------
(* MAC spoofing: MacchangerIntegration and AdvancedMacSpoofingController.    *)
(* active models self.active_spoofs, workers the rotate_mac threads.         *)

MaxRotations == 2    \* spoofing attempts of one rotation thread

NoMac == <<>>        \* None where a MAC address is expected

\* The octets random.choices draws for a prefix and for a suffix.
RandomPrefixes == {<<17, 34, 51>>, <<21, 34, 51>>}
RandomSuffixes == {<<68, 85, 102>>}

\* len() of the string "XX:XX:..." that writes the octets.
PrefixLen(octets) == IF octets = <<>> THEN 0 ELSE 3 * Len(octets) - 1

\* first_byte &= 0xFE and first_byte |= 0x02
clear_multicast_bit(b) == b - (b % 2)
set_locally_administered_bit(b) == IF (b \div 2) % 2 = 1 THEN b ELSE b + 2

generate_random_mac(vendor_prefix, rnd_prefix, rnd_suffix) ==
    LET prefix == IF vendor_prefix /= NoMac /\ PrefixLen(vendor_prefix) = 8
                  THEN vendor_prefix
                  ELSE rnd_prefix
        first_byte == set_locally_administered_bit(clear_multicast_bit(prefix[1]))
    IN  <<first_byte, prefix[2], prefix[3]>> \o rnd_suffix

\* get_current_mac: the address the system reports, None when neither
\* /sys/class/net nor ip link gives one.
get_current_mac(interface, readable) ==
    IF readable THEN iface_mac[interface] ELSE NoMac

\* original_macs after backup_original_mac(interface).
backup_original_mac(interface, readable) ==
    IF get_current_mac(interface, readable) /= NoMac
    THEN Put(original_macs, interface, get_current_mac(interface, readable))
    ELSE original_macs

\* set_mac_address: what it returns; changed tells whether macchanger -m
\* exited with 0.
set_mac_address(changed) == macchanger_available /\ changed

MacIdle == [pc |-> "idle", id |-> UnknownId, interface |-> "None", thread |-> None]

RotationId(interface, t) == JobId("rotation_" \o interface, t)
VendorId(interface, t) == JobId("vendor_" \o interface, t)

\* start_mac_rotation up to thread.start(): the backup, then the thread.
start_mac_rotation(interface, readable) ==
    /\ caller.pc = "idle"
    /\ Len(starts) < MaxStarts
    /\ original_macs' = backup_original_mac(interface, readable)
    /\ IF get_current_mac(interface, readable) /= NoMac
       THEN /\ workers' = Append(workers,
                              [id |-> RotationId(interface, now), interface |-> interface,
                               pc |-> "check", n |-> 0, new_mac |-> NoMac,
                               returned |-> FALSE, stopped |-> FALSE])
            /\ caller' = [pc |-> "insert", id |-> RotationId(interface, now),
                          interface |-> interface, thread |-> Len(workers) + 1]
            /\ starts' = Append(starts, [id |-> RotationId(interface, now), ret |-> "pending"])
       ELSE /\ starts' = Append(starts, [id |-> RotationId(interface, now), ret |-> "None"])
            /\ UNCHANGED <<workers, caller>>
    /\ UNCHANGED <<family, probes, available, iface_mac, tool_output, now, procs,
                   current_process, active, monitors, ticks, terminal_at>>

\* start_mac_rotation from the insertion into active_spoofs to its return.
start_mac_rotation_insert ==
    /\ caller.pc = "insert"
    /\ active' = Put(active, caller.id,
                     [interface |-> caller.interface, type |-> "rotation",
                      thread |-> caller.thread, status |-> "running",
                      current_mac |-> NoMac, last_change |-> None])
    /\ workers' = [workers EXCEPT ![caller.thread].returned = TRUE]
    /\ starts' = [starts EXCEPT ![Len(starts)].ret = "id"]
    /\ caller' = MacIdle
    /\ UNCHANGED <<family, probes, available, iface_mac, original_macs, tool_output, now,
                   procs, current_process, monitors, ticks, terminal_at>>

\* rotate_mac: the while condition.
rotate_mac_check(w) ==
    /\ workers[w].pc = "check"
    /\ workers' = [workers EXCEPT ![w].pc = IF workers[w].id \in DOMAIN active
                                            THEN "spoof" ELSE "done"]
    /\ UNCHANGED <<family, probes, available, iface_mac, original_macs, tool_output, now,
                   procs, current_process, active, monitors, caller, starts, ticks,
                   terminal_at>>

\* rotate_mac: spoof_random_mac(interface).
rotate_mac_spoof(w, rnd_prefix, rnd_suffix, changed) ==
    LET random_mac == generate_random_mac(NoMac, rnd_prefix, rnd_suffix)
    IN  /\ workers[w].pc = "spoof"
        /\ iface_mac' = IF set_mac_address(changed)
                        THEN [iface_mac EXCEPT ![workers[w].interface] = random_mac]
                        ELSE iface_mac
        /\ workers' = [workers EXCEPT
                         ![w].n = @ + 1,
                         ![w].new_mac = IF set_mac_address(changed) THEN random_mac ELSE NoMac,
                         ![w].pc = IF set_mac_address(changed) THEN "record" ELSE "sleep"]
        /\ UNCHANGED <<family, probes, available, original_macs, tool_output, now, procs,
                       current_process, active, monitors, caller, starts, ticks,
                       terminal_at>>

\* rotate_mac: the two assignments into the entry; a KeyError ends the thread.
rotate_mac_record(w) ==
    /\ workers[w].pc = "record"
    /\ IF workers[w].id \in DOMAIN active
       THEN /\ active' = [active EXCEPT ![workers[w].id].current_mac = workers[w].new_mac,
                                        ![workers[w].id].last_change = now]
            /\ workers' = [workers EXCEPT ![w].pc = "sleep"]
       ELSE /\ workers' = [workers EXCEPT ![w].pc = "dead"]
            /\ UNCHANGED active
    /\ UNCHANGED <<family, probes, available, iface_mac, original_macs, tool_output, now,
                   procs, current_process, monitors, caller, starts, ticks, terminal_at>>

\* rotate_mac: time.sleep(interval) returns.
rotate_mac_sleep(w) ==
    /\ workers[w].pc = "sleep"
    /\ workers[w].n < MaxRotations
    /\ workers' = [workers EXCEPT ![w].pc = "check"]
    /\ UNCHANGED <<family, probes, available, iface_mac, original_macs, tool_output, now,
                   procs, current_process, active, monitors, caller, starts, ticks,
                   terminal_at>>

\* spoof_specific_vendor: the backup, then spoof_vendor_mac, whose call of
\* set_mac_address passes three arguments to a method of two and raises
\* TypeError before any entry is stored.
spoof_specific_vendor(interface, vendor_code, readable) ==
    /\ caller.pc = "idle"
    /\ Len(starts) < MaxStarts
    /\ original_macs' = backup_original_mac(interface, readable)
    /\ starts' = Append(starts,
                        [id |-> VendorId(interface, now),
                         ret |-> IF get_current_mac(interface, readable) /= NoMac
                                 THEN "TypeError" ELSE "None"])
    /\ UNCHANGED <<family, probes, available, iface_mac, tool_output, now, procs,
                   current_process, active, monitors, workers, caller, ticks, terminal_at>>

\* stop_spoofing up to the call of restore_original_mac.
stop_spoofing(spoof_id) ==
    /\ caller.pc = "idle"
    /\ IF spoof_id \in DOMAIN active
       THEN /\ active' = IF active[spoof_id].thread /= None
                         THEN Del(active, {spoof_id})
                         ELSE active
            /\ caller' = [pc |-> "restore", id |-> spoof_id,
                          interface |-> active[spoof_id].interface,
                          thread |-> active[spoof_id].thread]
       ELSE UNCHANGED <<active, caller>>
    /\ UNCHANGED <<family, probes, available, iface_mac, original_macs, tool_output, now,
                   procs, current_process, monitors, workers, starts, ticks, terminal_at>>

\* restore_original_mac(interface) and the return of stop_spoofing. The field
\* stopped of a thread records that stop_spoofing returned True for its entry.
restore_original_mac(changed) ==
    LET success == caller.interface \in DOMAIN original_macs /\ set_mac_address(changed)
    IN  /\ caller.pc = "restore"
        /\ iface_mac' = IF success
                        THEN [iface_mac EXCEPT ![caller.interface] = original_macs[caller.interface]]
                        ELSE iface_mac
        /\ workers' = IF success /\ caller.thread /= None
                      THEN [workers EXCEPT ![caller.thread].stopped = TRUE]
                      ELSE workers
        /\ caller' = MacIdle
        /\ UNCHANGED <<family, probes, available, original_macs, tool_output, now, procs,
                       current_process, active, monitors, starts, ticks, terminal_at>>

\* The 8-character vendor codes callers pass.
VendorCodes == {<<0, 80, 86>>}

\* The ids stop_spoofing is called with: those start_mac_rotation made.
SpoofIds == {starts[k].id : k \in DOMAIN starts}

InitMac ==
    /\ family = "macchanger"
    /\ probes \in [Tools(family) -> InstalledOrNot]
    /\ available = Flags(family, probes)
    /\ tool_output = [lines |-> {}, max |-> 0]
    /\ now = StartTime
    /\ procs = <<>>
    /\ current_process = None
    /\ active = EmptyDict
    /\ monitors = <<>>
    /\ workers = <<>>
    /\ caller = MacIdle
    /\ starts = <<>>
    /\ ticks = 0
    /\ terminal_at = EmptyDict
    /\ Unspoofed

NextMac ==
    \/ Tick
    \/ \E interface \in Interfaces, readable \in BOOLEAN :
           start_mac_rotation(interface, readable)
    \/ start_mac_rotation_insert
    \/ \E w \in DOMAIN workers : rotate_mac_check(w)
    \/ \E w \in DOMAIN workers, rnd_prefix \in RandomPrefixes, rnd_suffix \in RandomSuffixes,
          changed \in BOOLEAN :
           rotate_mac_spoof(w, rnd_prefix, rnd_suffix, changed)
    \/ \E w \in DOMAIN workers : rotate_mac_record(w)
    \/ \E w \in DOMAIN workers : rotate_mac_sleep(w)
    \/ \E interface \in Interfaces, vendor_code \in VendorCodes, readable \in BOOLEAN :
           spoof_specific_vendor(interface, vendor_code, readable)
    \/ \E spoof_id \in SpoofIds : stop_spoofing(spoof_id)
    \/ \E changed \in BOOLEAN : restore_original_mac(changed)

SpecMac == InitMac /\ [][NextMac]_vars

\* generate_random_mac on its own: the caller holds the argument, then the
\* address returned.
Octets == 0..255

\* The arguments: None, a prefix that is not 8 characters long, and every
\* XX:XX:XX prefix of one vendor tail.
VendorPrefixes ==
    {NoMac, <<0, 80>>} \cup {<<first_octet, 80, 86>> : first_octet \in Octets}

InitGen ==
    /\ family = "macchanger"
    /\ probes \in [Tools(family) -> InstalledOrNot]
    /\ available = Flags(family, probes)
    /\ tool_output = [lines |-> {}, max |-> 0]
    /\ now = StartTime
    /\ procs = <<>>
    /\ current_process = None
    /\ active = EmptyDict
    /\ monitors = <<>>
    /\ workers = <<>>
    /\ caller \in {[pc |-> "call", vendor_prefix |-> vendor_prefix, ret |-> NoMac] :
                       vendor_prefix \in VendorPrefixes}
    /\ starts = <<>>
    /\ ticks = 0
    /\ terminal_at = EmptyDict
    /\ Unspoofed

generate_random_mac_returns(rnd_prefix, rnd_suffix) ==
    /\ caller.pc = "call"
    /\ caller' = [caller EXCEPT
                     !.pc = "returned",
                     !.ret = generate_random_mac(caller.vendor_prefix, rnd_prefix, rnd_suffix)]
    /\ UNCHANGED <<family, probes, available, iface_mac, original_macs, tool_output, now,
                   procs, current_process, active, monitors, workers, starts, ticks,
                   terminal_at>>

NextGen ==
    \E rnd_prefix \in RandomPrefixes, rnd_suffix \in RandomSuffixes :
        generate_random_mac_returns(rnd_prefix, rnd_suffix)

SpecGen == InitGen /\ [][NextGen]_vars

----------------------------------------------------------------------------
(* Properties.                                                              *)

\* The processes launched for the job registered under id: the handle its
\* entry holds, or (mdk entries hold none) those its run_attacks thread launched.
JobProcs(id) ==
    IF "process" \in DOMAIN active[id]
    THEN {active[id].process}
    ELSE {p \in DOMAIN procs : starts[procs[p].job].id = id}

\* The threads inside a blocking operation on process handle h: a monitor in
\* readline(), the caller of stop in wait(timeout=5), a run_attacks thread in
\* wait(timeout=2).
Accessors(h) ==
    {<<"monitor", t>> : t \in {m \in DOMAIN monitors :
                                  monitors[m].pc = "reading" /\ monitors[m].h = h}}
    \cup {<<"worker", w>> : w \in {x \in DOMAIN workers :
                                      workers[x].pc = "wait" /\ workers[x].process = h}}
    \cup (IF caller.pc = "wait" /\ caller.h = h THEN {<<"caller", 0>>} ELSE {})

\* stop(id) returns in this step, having been called on a registered job.
StopReturns == caller.pc = "wait" /\ caller'.pc = "idle"

\* C1: any two start calls that returned a job id returned distinct ids, also
\* when both were issued within the same second.
C1_DistinctJobIds ==
    \A i, j \in DOMAIN starts :
        (i /= j /\ starts[i].ret = "ok" /\ starts[j].ret = "ok")
            => starts[i].id /= starts[j].id

\* C2: once the status of a job is terminal, no step changes it to a different
\* value (a step that keeps the entry's process handle keeps the entry's job).
C2_TerminalIsFinal ==
    [][\A id \in (DOMAIN active) \cap (DOMAIN active') :
          (/\ IsTerminal(active[id])
           /\ Get(active'[id], "process", None) = Get(active[id], "process", None))
              => Status(active'[id]) = Status(active[id])]_vars

\* C3: at no time are two threads inside an operation on the same process
\* handle.
C3_SingleOwner ==
    \A h \in DOMAIN procs : Cardinality(Accessors(h)) <= 1

\* C4: when stop(id) returns, having been called on a registered job that was
\* not terminal, the job's status is stopped and the process launched for the
\* job is no longer running.
C4_StopStops ==
    [][(StopReturns /\ caller.was \notin TerminalStates)
          => /\ Status(active'[caller.id]) = "stopped"
             /\ \A p \in JobProcs(caller.id) : procs'[p].state /= "running"]_vars

\* C5: stop(id) on a job that is already terminal sends no signal to any
\* process and returns leaving the registry as it was.
C5_StopTerminalNoOp ==
    [][/\ (caller.pc = "idle" /\ caller'.pc = "wait" /\ caller'.was \in TerminalStates)
            => procs' = procs
       /\ (StopReturns /\ caller.was \in TerminalStates)
            => (active' = active /\ procs' = procs)]_vars

\* C6: on a controller whose availability probes all returned unavailable, no
\* start spawns a process, returns an id or adds a registry entry.
C6_UnavailableRefused ==
    (\A tool \in Tools(family) : ~available[tool])
        => /\ procs = <<>>
           /\ caller.pc /= "precompute"
           /\ DOMAIN active = {}
           /\ \A k \in DOMAIN starts : starts[k].ret /= "ok"

\* C7: a sweep removes an entry only if the job is terminal and became terminal
\* more than the retention window ago.
C7_SweepOnlyExpired ==
    [][\A id \in (DOMAIN active) \ (DOMAIN active') :
          /\ IsTerminal(active[id])
          /\ id \in DOMAIN terminal_at
          /\ now - terminal_at[id] > Retention(family)]_vars

\* C8: whenever a sweep can run (on a controller that has one), it removes
\* every terminal job whose last update is more than 300 seconds old, and no
\* terminal job whose last update is less than 300 seconds old.
C8_SweepRemovesExpired ==
    (family /= "mdk" /\ caller.pc = "idle")
        => \A id \in DOMAIN active :
              (IsTerminal(active[id]) /\ "last_update" \in DOMAIN active[id])
                  => /\ now - active[id].last_update > CrunchRetention
                          => id \in ToRemove(family, now)
                     /\ now - active[id].last_update < CrunchRetention
                          => id \notin ToRemove(family, now)

\* The process started with monitor thread t exited on its own (not by a
\* signal), and the entry under the thread's id is still that job's.
ExitedOnItsOwn(t) ==
    /\ monitors[t].id \in DOMAIN active
    /\ active[monitors[t].id].process = monitors[t].own
    /\ procs[monitors[t].own].state = "exited"
    /\ procs[monitors[t].own].returncode \in {0, 1}

\* C9: a job whose process exited with a non-success code is never completed;
\* and once the monitor thread of a job whose process exited on its own has
\* ended, an unstopped job is completed after exit code 0, failed otherwise.
C9_ExitCodeDecides ==
    \A t \in DOMAIN monitors :
        ExitedOnItsOwn(t)
            => LET info == active[monitors[t].id]
                   code == procs[monitors[t].own].returncode
               IN  /\ code /= 0 => Status(info) /= "completed"
                   /\ (monitors[t].pc = "done" /\ Status(info) /= "stopped")
                         => Status(info) = IF code = 0 THEN "completed" ELSE "failed"

\* C10: a monitor thread that observed a timeout leaves its job timed_out.
C10_TimeoutRecorded ==
    \A t \in DOMAIN monitors :
        (/\ monitors[t].final = "timeout"
         /\ monitors[t].id \in DOMAIN active
         /\ active[monitors[t].id].process = monitors[t].own)
            => Status(active[monitors[t].id]) = "timed_out"

\* The registry entries made by start call k: those holding a process it
\* launched, or (mdk) the handle of the run_attacks thread it started.
EntriesOf(k) ==
    {id \in DOMAIN active :
        \/ /\ "process" \in DOMAIN active[id]
           /\ procs[active[id].process].job = k
        \/ /\ "thread" \in DOMAIN active[id]
           /\ workers[active[id].thread].k = k}

\* C11: a start call on whose behalf spawning a child process failed has not
\* returned an id, and the registry holds no entry made by it.
C11_SpawnFailureFailsStart ==
    \A k \in DOMAIN starts :
        starts[k].spawn = "failed"
            => (starts[k].ret /= "ok" /\ EntriesOf(k) = {})

\* C12: a start call carrying an option key outside the set of options the
\* launch knows has not returned an id, and no process was launched for it.
C12_UnknownOptionRejected ==
    \A k \in DOMAIN starts :
        (family = "wifite" /\ starts[k].kwargs \ WifiteOptions /= {})
            => (starts[k].ret /= "ok" /\ starts[k].proc = None)

\* C13: whenever a status query or a sweep can run, no entry shows part of an
\* update: a result is recorded only on a completed job, and a stopped job has
\* a last-update time.
C13_NoPartialUpdate ==
    caller.pc = "idle"
        => \A id \in DOMAIN active :
              /\ "result" \in DOMAIN active[id] => Status(active[id]) = "completed"
              /\ Status(active[id]) = "stopped" => "last_update" \in DOMAIN active[id]

\* C14: a monitor thread changes the entry of its job only with progress
\* parsed from the output of the job's own process, and marks it completed
\* after the loop only if the job's own process has exited.
C14_OwnProcessOnly ==
    [][\A t \in DOMAIN monitors :
          LET id == monitors[t].id
          IN  (/\ monitors'[t] /= monitors[t]
               /\ id \in (DOMAIN active) \cap (DOMAIN active')
               /\ active[id].process = monitors[t].own
               /\ active'[id] /= active[id])
                  => /\ monitors[t].pc = "reading" => monitors[t].h = monitors[t].own
                     /\ (monitors[t].pc = "final" /\ Status(active'[id]) = "completed")
                           => ~Running(monitors[t].own)]_vars

\* C15: the events a monitor thread has handed to its job's callback are in
\* the order in which their lines were read: within one process's output by
\* line number, and a later process's lines after an earlier one's.
C15_EventsInReadOrder ==
    \A t \in DOMAIN monitors :
        \A i, j \in DOMAIN monitors[t].events :
            i < j => LET a == monitors[t].events[i]
                         b == monitors[t].events[j]
                     IN  a.h < b.h \/ (a.h = b.h /\ a.n < b.n)

\* A monitor thread has delivered the events of two lines of one process.
C15_TwoEventsDelivered ==
    \E t \in DOMAIN monitors :
        /\ Len(monitors[t].events) = 2
        /\ monitors[t].events[1].h = monitors[t].events[2].h

\* The ordered matcher list of each family's parser.
Matchers(f) ==
    CASE f = "crunch"   -> <<"percent", "words">>
      [] f = "cowpatty" -> <<"key_found", "percent", "tested">>
      [] f = "wifite"   -> WifitePatterns
      [] f = "mdk"      -> MdkPatterns

\* The first matcher of the list that matches the line, "none" if none does.
Winner(f, line) ==
    LET hits == {i \in DOMAIN Matchers(f) : Hit(line, Matchers(f)[i])}
    IN  IF hits = {} THEN "none"
        ELSE Matchers(f)[CHOOSE i \in hits : \A j \in hits : i <= j]

\* The matcher an event came from, and the number it carries.
MatcherOf(f, e) ==
    CASE f = "crunch"   -> IF e.type = "progress" THEN "percent" ELSE "words"
      [] f = "cowpatty" -> IF e.type = "progress" THEN "percent"
                           ELSE IF e.type = "passphrases_tested" THEN "tested"
                           ELSE e.type
      [] f = "wifite"   -> IF e.type = "targets_found" THEN "target_found"
                           ELSE IF e.type = "key_found" THEN e.key_type
                           ELSE e.type
      [] f = "mdk"      -> e.type

NumberOf(e) ==
    e[CHOOSE k \in DOMAIN e \ {"type", "status", "key_type", "timestamp"} : TRUE]

\* The events a first-match-wins parser yields for a sequence of lines.
RECURSIVE Expected(_, _)
Expected(f, lines) ==
    IF lines = <<>> THEN <<>>
    ELSE LET w == Winner(f, Head(lines))
         IN  (IF w = "none" THEN <<>> ELSE << <<w, Val(Head(lines), w)>> >>)
             \o Expected(f, Tail(lines))

\* The lines of process p's output that have been read.
Consumed(p) == SubSeq(procs[p].out, 1, Len(procs[p].out) - Len(procs[p].pipe))

\* C16: the events a monitor loop has produced from the lines it read are, in
\* order, one event per line that some matcher of the family matches: that of
\* the first matcher of the family's list that matches it.
C16_FirstMatchWins ==
    \A t \in DOMAIN monitors :
        monitors[t].pc /= "done"
            => [i \in DOMAIN monitors[t].events |->
                    <<MatcherOf(family, monitors[t].events[i].event),
                      NumberOf(monitors[t].events[i].event)>>]
               = Expected(family, Consumed(monitors[t].own))

\* A monitor loop has read a line that several matchers match and a line that
\* none matches, and has produced an event.
C16_AmbiguousLineParsed ==
    \E t \in DOMAIN monitors :
        LET read == Consumed(monitors[t].own)
        IN  /\ monitors[t].pc /= "done"
            /\ monitors[t].events /= <<>>
            /\ \E i \in DOMAIN read :
                  Cardinality({m \in DOMAIN Matchers(family) :
                                  Hit(read[i], Matchers(family)[m])}) >= 2
            /\ \E i \in DOMAIN read : read[i] = {}

\* C17: a monitor thread that has left its loop after its job's process
\* exited has left no line of that process unread.
C17_NoLineLeftUnread ==
    \A t \in DOMAIN monitors :
        (/\ monitors[t].pc \in {"final", "done"}
         /\ ~Running(monitors[t].own))
            => procs[monitors[t].own].pipe = <<>>

\* Monitor thread t of a registered crunch job takes a step.
CrunchMonitorStep(t) ==
    /\ family = "crunch"
    /\ monitors'[t] /= monitors[t]
    /\ monitors[t].id \in DOMAIN active
    /\ active[monitors[t].id].process = monitors[t].own

\* C18: when the monitor thread of a crunch job reads a line "N%" of the job's
\* process, progress N is recorded on the job; and when it leaves the loop
\* after the process exited with code 0, a running job becomes completed.
C18_CrunchScenario ==
    [][\A t \in DOMAIN monitors :
          CrunchMonitorStep(t)
              => LET id == monitors[t].id
                     own == monitors[t].own
                 IN  /\ (/\ monitors[t].pc = "reading"
                         /\ monitors[t].h = own
                         /\ procs[own].pipe /= <<>>
                         /\ Hit(Head(procs[own].pipe), "percent"))
                           => /\ active'[id].progress = Val(Head(procs[own].pipe), "percent")
                              /\ monitors'[t].events[Len(monitors'[t].events)].event
                                   = [type |-> "progress",
                                      percentage |-> Val(Head(procs[own].pipe), "percent")]
                     /\ (/\ monitors[t].pc = "final"
                         /\ procs[own].returncode = 0 /\ ~Running(own)
                         /\ Status(active[id]) = "running")
                           => Status(active'[id]) = "completed"]_vars

\* A crunch job has progress 42 recorded and is completed after its process
\* exited with code 0.
C18_ProgressThenCompleted ==
    \E t \in DOMAIN monitors :
        /\ family = "crunch"
        /\ monitors[t].pc = "done"
        /\ monitors[t].id \in DOMAIN active
        /\ active[monitors[t].id].process = monitors[t].own
        /\ procs[monitors[t].own].returncode = 0 /\ ~Running(monitors[t].own)
        /\ Get(active[monitors[t].id], "progress", None) = 42
        /\ Status(active[monitors[t].id]) = "completed"
        /\ \E i \in DOMAIN monitors[t].events :
              monitors[t].events[i] =
                  [h |-> monitors[t].own, n |-> 1,
                   event |-> [type |-> "progress", percentage |-> 42]]

\* C19: stop force-kills a process only if that process is still alive and
\* was sent terminate before.
C19_TerminateBeforeKill ==
    [][\A p \in DOMAIN procs :
          (procs[p].returncode /= -9 /\ procs'[p].returncode = -9)
              => (Running(p) /\ procs[p].sigterm)]_vars

\* C20: no start call that has not returned yet is waiting for a child
\* process to finish.
C20_StartNeverWaits ==
    \A k \in DOMAIN starts :
        starts[k].ret = "pending" => caller.pc /= "precompute"

\* C21: every registry entry has a status, and it is one of pending, running,
\* completed, failed, stopped, timed_out.
C21_EntryHasStatus ==
    \A id \in DOMAIN active :
        /\ "status" \in DOMAIN active[id]
        /\ active[id].status \in TerminalStates \cup {"pending", "running"}

\* C22: no availability check raises, and a check whose tool timed out or is
\* missing gives unavailable.
C22_ProbeNeverThrows ==
    /\ caller.pc /= "raised"
    /\ \A tool \in DOMAIN available :
          probes[tool] \in {"timeout", "missing"} => ~available[tool]

\* C23: no step of a constructed controller changes an availability flag.
C23_FlagsNeverMutated == [][available' = available]_vars

\* A job was started, had progress recorded by its monitor thread, was
\* stopped, and the monitor thread has ended.
C23_OperationsHaveActed ==
    \E t \in DOMAIN monitors :
        /\ monitors[t].pc = "done"
        /\ monitors[t].id \in DOMAIN active
        /\ "progress" \in DOMAIN active[monitors[t].id]
        /\ Status(active[monitors[t].id]) = "stopped"

\* C24: when a monitor thread hands a count event (words generated,
\* passphrases tested, targets found) to the callback of a registered job, the
\* job's entry then holds that count as its progress.
C24_CountEventRecorded ==
    [][\A t \in DOMAIN monitors :
          (/\ monitors[t].id \in DOMAIN active
           /\ Len(monitors'[t].events) > Len(monitors[t].events))
              => LET e == monitors'[t].events[Len(monitors'[t].events)].event
                 IN  "count" \in DOMAIN e
                        => Get(active'[monitors[t].id], "progress", None) = e.count]_vars

\* C25: a stop call sends terminate or kill only to a process launched for the
\* job whose id it was given, and changes no other job's entry.
C25_StopOnlyOwnJob ==
    [][LET calls == caller.pc = "idle" /\ caller'.pc \in {"terminated", "wait"}
           returns == caller.pc = "wait" /\ caller'.pc = "idle"
           id == IF calls THEN caller'.id ELSE caller.id
       IN  (calls \/ returns)
              => /\ \A p \in DOMAIN procs :
                       (\/ ~procs[p].sigterm /\ procs'[p].sigterm
                        \/ procs[p].returncode /= -9 /\ procs'[p].returncode = -9)
                           => starts[procs[p].job].id = id
                 /\ \A other \in DOMAIN active \ {id} :
                       other \in DOMAIN active' /\ active'[other] = active[other]]_vars

\* C26: no step replaces the process (mdk: the thread) an existing registry
\* entry refers to; an id stays with the start that registered it.
C26_EntryNeverOverwritten ==
    [][\A id \in (DOMAIN active) \cap (DOMAIN active') :
          /\ Get(active'[id], "process", None) = Get(active[id], "process", None)
          /\ Get(active'[id], "thread", None) = Get(active[id], "thread", None)]_vars

\* Start call k launched a process for a job, and that process has exited.
ProcessGone(k) ==
    /\ k \in DOMAIN starts
    /\ starts[k].ret = "ok"
    /\ ~Running(starts[k].proc)

\* The job of start call k has a terminal status, or the entry under the id
\* the call returned is no longer that job's.
JobEnded(k) ==
    /\ k \in DOMAIN starts
    /\ starts[k].ret = "ok"
    /\ \/ starts[k].id \notin DOMAIN active
       \/ active[starts[k].id].process /= starts[k].proc
       \/ IsTerminal(active[starts[k].id])

\* C27: once the process of a job has exited, the job's status eventually is
\* terminal (unless its entry has been replaced by another job's).
C27_GoneProcessEndsJob ==
    \A k \in 1..MaxStarts :
        ProcessGone(k) ~> JobEnded(k)

\* C28: whenever a job of the crunch, cowpatty or wifite controller is
\* completed, the process its entry refers to has exited.
C28_CompletedMeansExited ==
    \A id \in DOMAIN active :
        (Status(active[id]) = "completed" /\ "process" \in DOMAIN active[id])
            => ~Running(active[id].process)

\* C29: once the result of a cowpatty job records a found key, no step
\* replaces that result with a failure result.
C29_FoundKeyKept ==
    [][\A id \in (DOMAIN active) \cap (DOMAIN active') :
          (/\ family = "cowpatty"
           /\ "result" \in DOMAIN active[id]
           /\ active[id].result.type = "key_found"
           /\ active'[id].process = active[id].process)
              => active'[id].result.status /= "failed"]_vars

\* C30: once the run_attacks thread of an mdk job has ended and the start call
\* has returned, the job is completed unless it was stopped; the thread's final
\* status write has not failed.
C30_EndedWorkerCompletesJob ==
    \A w \in DOMAIN workers :
        LET id == workers[w].id
        IN  (/\ workers[w].pc \in {"done", "dead"}
             /\ starts[workers[w].k].ret = "ok"
             /\ id \in DOMAIN active
             /\ active[id].thread = w
             /\ Status(active[id]) /= "stopped")
                => (workers[w].pc = "done" /\ Status(active[id]) = "completed")

\* C31: once an mdk job is stopped, its run_attacks thread launches no further
\* process for it and its status stays stopped.
C31_StoppedJobStaysStopped ==
    [][\A w \in DOMAIN workers :
          LET id == workers[w].id
          IN  (/\ id \in DOMAIN active
               /\ Status(active[id]) = "stopped"
               /\ active[id].thread = w)
                  => /\ \A p \in (DOMAIN procs') \ (DOMAIN procs) :
                           procs'[p].job /= workers[w].k
                     /\ id \in DOMAIN active'
                     /\ Status(active'[id]) = "stopped"]_vars

\* C32: whenever an mdk job is completed, no process its run_attacks thread
\* launched is still running.
C32_CompletedLeavesNoProcess ==
    \A id \in DOMAIN active :
        (Status(active[id]) = "completed" /\ "thread" \in DOMAIN active[id])
            => \A p \in DOMAIN procs :
                  procs[p].job = workers[active[id].thread].k => ~Running(p)

\* C33: every successful cowpatty start launched exactly one process: in
\* PMK-file mode if precomputation was requested, genpmk is available and
\* genpmk exited 0 with its file; otherwise in wordlist mode with the
\* dictionary-file, capture-file and ssid flags.
C33_OneAttackInTheRightMode ==
    \A k \in DOMAIN starts :
        (family = "cowpatty" /\ starts[k].ret = "ok")
            => LET launched == {p \in DOMAIN procs : procs[p].job = k}
                   pmk_mode == /\ "use_precomputation" \in starts[k].kwargs
                               /\ genpmk_available
                               /\ starts[k].genpmk = "exit 0"
               IN  /\ launched = {starts[k].proc}
                   /\ procs[starts[k].proc].cmd =
                         IF pmk_mode THEN "cowpatty -d" ELSE "cowpatty -f"
                   /\ procs[starts[k].proc].argv =
                         IF pmk_mode THEN {"-d", "-r", "-s"} ELSE {"-f", "-r", "-s"}

\* One cowpatty start has launched in PMK-file mode after genpmk exited 0,
\* and another in wordlist mode after genpmk failed.
C33_BothModesLaunched ==
    /\ family = "cowpatty"
    /\ \E k \in DOMAIN starts :
          /\ starts[k].ret = "ok" /\ starts[k].genpmk = "exit 0"
          /\ procs[starts[k].proc].cmd = "cowpatty -d"
    /\ \E k \in DOMAIN starts :
          /\ starts[k].ret = "ok" /\ starts[k].genpmk \in {"exit 1", "timeout"}
          /\ procs[starts[k].proc].cmd = "cowpatty -f"

\* C34: once stop_spoofing(id) has returned True for a rotation job, the
\* rotation thread of that job changes the MAC address of no interface: every
\* later step of the thread leaves the addresses as the restore left them.
C34_NoMacChangeAfterStop ==
    [][\A w \in DOMAIN workers :
          workers[w].stopped /\ workers'[w] /= workers[w] => iface_mac' = iface_mac]_vars

\* C35: the address backed up for an interface is the address the interface
\* had before any spoofing by the controller began, so that restoring it
\* gives the interface its true original address.
C35_BackupIsTheOriginal ==
    \A interface \in DOMAIN original_macs : original_macs[interface] = HardwareMac

\* C36: the registry never shows a rotation as running whose thread has
\* already ended, whether by leaving its loop or by an exception.
C36_RunningRotationHasLiveThread ==
    \A spoof_id \in DOMAIN active :
        active[spoof_id].type = "rotation" /\ active[spoof_id].status = "running"
            => workers[active[spoof_id].thread].pc \notin {"done", "dead"}

\* C37: generate_random_mac called with an 8-character XX:XX:XX vendor prefix
\* returns an address whose first three octets are the prefix, whatever the
\* first octet: the adjustment of the multicast and locally administered
\* bits leaves a supplied prefix as it is.
C37_VendorPrefixKept ==
    caller.pc = "returned" /\ PrefixLen(caller.vendor_prefix) = 8
        => SubSeq(caller.ret, 1, 3) = caller.vendor_prefix

====
